---- MODULE Spec2Model ----
(***************************************************************************)
(* Code signing services of security-framework (os/macos/code_signing.rs). *)
(*                                                                         *)
(* The wrappers own references to Core Foundation objects that live in the *)
(* operating system.  The model keeps the OS object table (heap), the      *)
(* number of live wrapper values holding each object (owners), the         *)
(* GuestAttributes dictionary (attrs), the Security calls issued by the    *)
(* last operation (oscalls) and what that operation handed back (result).  *)
(* Spec runs the operations on requirements and code objects, SpecAttrs    *)
(* the GuestAttributes setters with the guest lookup, SpecThreads the      *)
(* calls of several threads on one shared handle, SpecFlags the Flags      *)
(* values.                                                                 *)
(***************************************************************************)
EXTENDS Integers, Sequences, FiniteSets, TLC

(* ------------------------------ bounds --------------------------------- *)

\* Number of OS object slots.
MaxObj == 3

\* Number of wrapper values alive at once.
MaxHandle == 2

\* Number of threads sharing one handle (SpecThreads).
NumThreads == 2

Obj == 1..MaxObj

Thread == 1..NumThreads

\* std::ptr::null_mut(), and the content of an absent handle.
NULL == 0

(* ------------------------------ Flags ---------------------------------- *)

\* The kSecCS* option masks of security_framework_sys::code_signing.  A u32
\* is kept as the set of the positions of its one-bits (bit 0 is the lowest).
kSecCS ==
    [ CheckAllArchitectures        |-> {0},
      DoNotValidateExecutable      |-> {1},
      DoNotValidateResources       |-> {2},
      BasicValidateOnly            |-> {1, 2},
      CheckNestedCode              |-> {3},
      StrictValidate               |-> {4},
      FullReport                   |-> {5},
      CheckGatekeeperArchitectures |-> {0, 6},
      RestrictSymlinks             |-> {7},
      RestrictToAppLike            |-> {8},
      RestrictSidebandData         |-> {9},
      UseSoftwareSigningCert       |-> {10},
      ValidatePEH                  |-> {11},
      SingleThreaded               |-> {12},
      QuickCheck                   |-> {26},
      CheckTrustedAnchors          |-> {27},
      ReportProgress               |-> {28},
      NoNetworkAccess              |-> {29},
      EnforceRevocationChecks      |-> {30},
      ConsiderExpiration           |-> {31} ]

\* pub struct Flags: u32 { const ... }
Flags ==
    [ NONE                           |-> [bits |-> {}],
      CHECK_ALL_ARCHITECTURES        |-> [bits |-> kSecCS.CheckAllArchitectures],
      DO_NOT_VALIDATE_EXECUTABLE     |-> [bits |-> kSecCS.DoNotValidateExecutable],
      DO_NOT_VALIDATE_RESOURCES      |-> [bits |-> kSecCS.DoNotValidateResources],
      BASIC_VALIDATE_ONLY            |-> [bits |-> kSecCS.BasicValidateOnly],
      CHECK_NESTED_CODE              |-> [bits |-> kSecCS.CheckNestedCode],
      STRICT_VALIDATE                |-> [bits |-> kSecCS.StrictValidate],
      FULL_REPORT                    |-> [bits |-> kSecCS.FullReport],
      CHECK_GATEKEEPER_ARCHITECTURES |-> [bits |-> kSecCS.CheckGatekeeperArchitectures],
      RESTRICT_SYMLINKS              |-> [bits |-> kSecCS.RestrictSymlinks],
      RESTRICT_TO_APP_LIKE           |-> [bits |-> kSecCS.RestrictToAppLike],
      RESTRICT_SIDEBAND_DATA         |-> [bits |-> kSecCS.RestrictSidebandData],
      USE_SOFTWARE_SIGNING_CERT      |-> [bits |-> kSecCS.UseSoftwareSigningCert],
      VALIDATE_PEH                   |-> [bits |-> kSecCS.ValidatePEH],
      SINGLE_THREADED                |-> [bits |-> kSecCS.SingleThreaded],
      QUICK_CHECK                    |-> [bits |-> kSecCS.QuickCheck],
      CHECK_TRUSTED_ANCHORS          |-> [bits |-> kSecCS.CheckTrustedAnchors],
      REPORT_PROGRESS                |-> [bits |-> kSecCS.ReportProgress],
      NO_NETWORK_ACCESS              |-> [bits |-> kSecCS.NoNetworkAccess],
      ENFORCE_REVOCATION_CHECKS      |-> [bits |-> kSecCS.EnforceRevocationChecks],
      CONSIDER_EXPIRATION            |-> [bits |-> kSecCS.ConsiderExpiration] ]

\* The named flags.
NamedFlags == { Flags[n] : n \in DOMAIN Flags }

\* Flags::bits
Flags_bits(f) == f.bits

\* A | B: bitwise or of the two words.
Flags_union_Xor(a, b) == [bits |-> (a.bits \ b.bits) \cup (b.bits \ a.bits)]

Flags_union(a, b) == [bits |-> a.bits \cup b.bits]

\* Flags::contains: (self.bits & other.bits) == other.bits
Flags_contains(f, other) == (f.bits \cap other.bits) = other.bits

\* impl Default for Flags
Flags_default == Flags.NONE

\* Flag values the callers of the model pass.
FlagInputs ==
    { Flags.NONE,
      Flags_union(Flags.BASIC_VALIDATE_ONLY, Flags.CONSIDER_EXPIRATION) }

(* --------------------------- status codes ------------------------------ *)

\* "code object is not signed at all"
errSecCSUnsigned == -67062

\* Statuses the OS hands back: zero is success, the others are failures
\* (-67050: the requirement text is not valid).
OSStatus == {0, errSecCSUnsigned, -67050}

\* crate::cvt: zero is Ok(()), any other status is Err(Error::from_code(status)).
cvt(err) ==
    IF err = 0 THEN [ok |-> TRUE, code |-> 0] ELSE [ok |-> FALSE, code |-> err]

(* ------------------------ Core Foundation objects ---------------------- *)

\* Locations on disk.
Paths == {"/bin/bash", "/bin/ls"}

NoPath == "-"

\* Requirement texts handed to the parser, and those the OS grammar accepts.
Texts == {"", "anchor apple", "anchor ("}

ValidRequirements == {"anchor apple"}

FreeObject == [type |-> "free", rc |-> 0, path |-> NoPath]

HasFree(h) == \E o \in Obj : h[o].rc = 0

\* The slot the OS allocator hands out next.
Alloc(h) == CHOOSE o \in Obj : h[o].rc = 0 /\ \A p \in Obj : h[p].rc = 0 => o <= p

\* An object just created: the creator owns its one reference.
OSCreate(h, type, path) ==
    [h EXCEPT ![Alloc(h)] = [type |-> type, rc |-> 1, path |-> path]]

CFRetain(h, o) == [h EXCEPT ![o].rc = @ + 1]

\* The object is destroyed when its count reaches zero.
CFRelease(h, o) ==
    IF h[o].rc <= 1 THEN [h EXCEPT ![o] = FreeObject] ELSE [h EXCEPT ![o].rc = @ - 1]

\* TCFType::wrap_under_create_rule: takes over the reference, no retain.
wrap_under_create_rule(h, o) == h

\* TCFType::wrap_under_get_rule: retains, then wraps.
wrap_under_get_rule(h, o) == CFRetain(h, o)

\* Clone of a wrapper (impl_TCFType!): a second owner, one more reference.
Clone(h, o) == wrap_under_get_rule(h, o)

\* Drop of a wrapper (declare_TCFType!): gives its reference back.
Drop(h, o) == CFRelease(h, o)

\* CFString::new
CFString_new(h, s) == OSCreate(h, "CFString", NoPath)

(* ------------------------ the Security service ------------------------- *)

\* Content of an output slot the OS did not write (MaybeUninit::uninit()).
Uninit == -1

\* The functions that write a new object to their output slot on success.
Creators ==
    { "SecRequirementCreateWithString", "SecCodeCopySelf",
      "SecCodeCopyGuestWithAttributes", "SecCodeCopyPath",
      "SecStaticCodeCreateWithPath" }

\* The object a successful call creates.  st is the status the OS settles on
\* and loc the location it associates with a new code object.
OSNewObject(h, call, loc) ==
    CASE call.fn = "SecRequirementCreateWithString" ->
           [type |-> "SecRequirement", path |-> NoPath]
      [] call.fn = "SecCodeCopySelf" ->
           [type |-> "SecCode", path |-> loc]
      [] call.fn = "SecCodeCopyGuestWithAttributes" ->
           [type |-> "SecCode", path |-> loc]
      [] call.fn = "SecStaticCodeCreateWithPath" ->
           [type |-> "SecStaticCode", path |-> loc]
      [] call.fn = "SecCodeCopyPath" ->
           [type |-> "CFURL", path |-> h[call.code].path]

\* The status of a call: the requirement parser accepts exactly the texts of
\* its grammar, every other outcome is the trust engine's choice st.
OSStatusOf(call, st) ==
    IF call.fn = "SecRequirementCreateWithString"
    THEN IF call.text \in ValidRequirements THEN 0 ELSE -67050
    ELSE st

\* One call into the Security framework: the status, the output slot after
\* the call and the object table after the call.
OSCall(h, call, st, loc) ==
    LET status == OSStatusOf(call, st)
    IN  IF status = 0 /\ call.fn \in Creators
        THEN LET new == OSNewObject(h, call, loc)
             IN  [ status |-> 0,
                   out    |-> Alloc(h),
                   heap   |-> OSCreate(h, new.type, new.path) ]
        ELSE [status |-> status, out |-> Uninit, heap |-> h]

\* The locations the OS may associate with the code object a call creates;
\* a call that fails creates none.
LocationsFor(st) == IF st = 0 THEN Paths ELSE {NoPath}

NumFree(h) == Cardinality({o \in Obj : h[o].rc = 0})

(* ----------------------------- wrappers -------------------------------- *)
(* Each wrapper yields: the Security calls it issued (calls), what the OS  *)
(* answered (os), the Result it returns (ok, code, out: the object the     *)
(* returned wrapper holds), whether the output slot was read (read) and    *)
(* the object table when it returns (heap).                                *)

Ok(call, os, out, h) ==
    [ calls |-> <<call>>, os |-> [status |-> os.status, out |-> os.out],
      ok |-> TRUE, code |-> 0, out |-> out, read |-> out # NULL, heap |-> h ]

Err(call, os, code, h) ==
    [ calls |-> <<call>>, os |-> [status |-> os.status, out |-> os.out],
      ok |-> FALSE, code |-> code, out |-> NULL, read |-> FALSE, heap |-> h ]

\* from_str that forgets the CFString of the text when the parser fails.
SecRequirement_from_str_LeakText(h, s) ==
    LET text == Alloc(h)
        h1   == CFString_new(h, s)
        call == [fn |-> "SecRequirementCreateWithString", text |-> s, flags |-> {}]
        os   == OSCall(h1, call, 0, NoPath)
        r    == cvt(os.status)
    IN  IF r.ok
        THEN Ok(call, os, os.out, Drop(wrap_under_create_rule(os.heap, os.out), text))
        ELSE Err(call, os, r.code, os.heap)

\* impl FromStr for SecRequirement
SecRequirement_from_str(h, s) ==
    LET text == Alloc(h)
        h1   == CFString_new(h, s)
        call == [fn |-> "SecRequirementCreateWithString", text |-> s, flags |-> {}]
        os   == OSCall(h1, call, 0, NoPath)
        r    == cvt(os.status)
    IN  IF r.ok
        THEN Ok(call, os, os.out, Drop(wrap_under_create_rule(os.heap, os.out), text))
        ELSE Err(call, os, r.code, Drop(os.heap, text))

\* SecCode::for_self
SecCode_for_self(h, flags, st, loc) ==
    LET call == [fn |-> "SecCodeCopySelf", flags |-> Flags_bits(flags)]
        os   == OSCall(h, call, st, loc)
        r    == cvt(os.status)
    IN  IF r.ok
        THEN Ok(call, os, os.out, wrap_under_create_rule(os.heap, os.out))
        ELSE Err(call, os, r.code, os.heap)

\* SecCode::check_validity: the call it issues.
SecCode_check_validity_call(self, flags, requirement) ==
    [ fn |-> "SecCodeCheckValidity", code |-> self, flags |-> Flags_bits(flags),
      requirement |-> requirement ]

\* check_validity that drops the status of the call.
SecCode_check_validity_ret_Swallow(h, call, os) == Ok(call, os, NULL, h)

\* SecCode::check_validity: what it returns for the OS's answer.
SecCode_check_validity_ret(h, call, os) ==
    LET r == cvt(os.status)
    IN  IF r.ok THEN Ok(call, os, NULL, h) ELSE Err(call, os, r.code, h)

SecCode_check_validity(h, self, flags, requirement, st) ==
    LET call == SecCode_check_validity_call(self, flags, requirement)
        os   == OSCall(h, call, st, NoPath)
    IN  SecCode_check_validity_ret(os.heap, call, os)

\* Option<&SecCode>
None == [some |-> FALSE, ref |-> NULL]

Some(o) == [some |-> TRUE, ref |-> o]

\* copy_guest_with_attribues that always asks the root of trust.
SecCode_copy_guest_with_attribues_NullHost(h, host, attrsInner, flags, st, loc) ==
    LET call == [ fn |-> "SecCodeCopyGuestWithAttributes", host |-> NULL,
                  attrs |-> attrsInner, flags |-> Flags_bits(flags) ]
        os   == OSCall(h, call, st, loc)
        r    == cvt(os.status)
    IN  IF r.ok
        THEN Ok(call, os, os.out, wrap_under_create_rule(os.heap, os.out))
        ELSE Err(call, os, r.code, os.heap)

\* SecCode::copy_guest_with_attribues
SecCode_copy_guest_with_attribues(h, host, attrsInner, flags, st, loc) ==
    LET hostRef == IF host.some THEN host.ref ELSE NULL
        call == [ fn |-> "SecCodeCopyGuestWithAttributes", host |-> hostRef,
                  attrs |-> attrsInner, flags |-> Flags_bits(flags) ]
        os   == OSCall(h, call, st, loc)
        r    == cvt(os.status)
    IN  IF r.ok
        THEN Ok(call, os, os.out, wrap_under_create_rule(os.heap, os.out))
        ELSE Err(call, os, r.code, os.heap)

\* SecCode::path: the call it issues.
SecCode_path_call(self, flags) ==
    [fn |-> "SecCodeCopyPath", code |-> self, flags |-> Flags_bits(flags)]

\* path that retains the code object it was called on and never releases it.
SecCode_path_ret_RetainSelf(h, call, os) ==
    LET r == cvt(os.status)
    IN  IF r.ok
        THEN Ok(call, os, os.out, CFRetain(wrap_under_create_rule(h, os.out), call.code))
        ELSE Err(call, os, r.code, CFRetain(h, call.code))

\* SecCode::path: what it returns for the OS's answer.
SecCode_path_ret(h, call, os) ==
    LET r == cvt(os.status)
    IN  IF r.ok
        THEN Ok(call, os, os.out, wrap_under_create_rule(h, os.out))
        ELSE Err(call, os, r.code, h)

SecCode_path(h, self, flags, st) ==
    LET call == SecCode_path_call(self, flags)
        os   == OSCall(h, call, st, NoPath)
    IN  SecCode_path_ret(os.heap, call, os)

\* from_path that passes no flags on.
SecStaticCode_from_path_NoFlags(h, path, flags, st, loc) ==
    LET call == [ fn |-> "SecStaticCodeCreateWithPath", path |-> path,
                  flags |-> Flags_bits(Flags.NONE) ]
        os   == OSCall(h, call, st, loc)
        r    == cvt(os.status)
    IN  IF r.ok
        THEN Ok(call, os, os.out, wrap_under_get_rule(os.heap, os.out))
        ELSE Err(call, os, r.code, os.heap)

\* SecStaticCode::from_path
SecStaticCode_from_path(h, path, flags, st, loc) ==
    LET call == [ fn |-> "SecStaticCodeCreateWithPath", path |-> path,
                  flags |-> Flags_bits(flags) ]
        os   == OSCall(h, call, st, loc)
        r    == cvt(os.status)
    IN  IF r.ok
        THEN Ok(call, os, os.out, wrap_under_get_rule(os.heap, os.out))
        ELSE Err(call, os, r.code, os.heap)

\* SecStaticCode::path: the call it issues.
SecStaticCode_path_call(self, flags) ==
    [fn |-> "SecCodeCopyPath", code |-> self, flags |-> Flags_bits(flags)]

\* SecStaticCode::path: what it returns for the OS's answer.
SecStaticCode_path_ret(h, call, os) ==
    LET r == cvt(os.status)
    IN  IF r.ok
        THEN Ok(call, os, os.out, wrap_under_create_rule(h, os.out))
        ELSE Err(call, os, r.code, h)

SecStaticCode_path(h, self, flags, st) ==
    LET call == SecStaticCode_path_call(self, flags)
        os   == OSCall(h, call, st, NoPath)
    IN  SecStaticCode_path_ret(os.heap, call, os)

\* SecStaticCode::check_validity: the call it issues.
SecStaticCode_check_validity_call(self, flags, requirement) ==
    [ fn |-> "SecStaticCodeCheckValidity", code |-> self,
      flags |-> Flags_bits(flags), requirement |-> requirement ]

\* check_validity that takes the requirement over and releases it.
SecStaticCode_check_validity_ret_ConsumeRequirement(h, call, os) ==
    LET r  == cvt(os.status)
        h1 == CFRelease(h, call.requirement)
    IN  IF r.ok THEN Ok(call, os, NULL, h1) ELSE Err(call, os, r.code, h1)

\* SecStaticCode::check_validity: what it returns for the OS's answer.
SecStaticCode_check_validity_ret(h, call, os) ==
    LET r == cvt(os.status)
    IN  IF r.ok THEN Ok(call, os, NULL, h) ELSE Err(call, os, r.code, h)

SecStaticCode_check_validity(h, self, flags, requirement, st) ==
    LET call == SecStaticCode_check_validity_call(self, flags, requirement)
        os   == OSCall(h, call, st, NoPath)
    IN  SecStaticCode_check_validity_ret(os.heap, call, os)

(* -------------------------- GuestAttributes ---------------------------- *)

kSecGuestAttributeAudit == "audit"

kSecGuestAttributePid == "pid"

\* Audit tokens, process ids, and the keys and values given to set_other.
Tokens == {"tokenA", "tokenB"}

\* No set_audit_token call yet.
NoToken == "none"

Pids == {100}

OtherKeys == {kSecGuestAttributeAudit, "architecture"}

OtherValues == {"x"}

EmptyDictionary == [k \in {} |-> NULL]

\* CFMutableDictionary::add (CFDictionaryAddValue): adds the pair if the key
\* is not already present.
CFMutableDictionary_add(d, key, value) ==
    IF key \in DOMAIN d THEN d ELSE [k \in DOMAIN d \cup {key} |->
                                        IF k = key THEN value ELSE d[k]]

\* GuestAttributes::set_audit_token
GuestAttributes_set_audit_token(inner, token) ==
    CFMutableDictionary_add(inner, kSecGuestAttributeAudit,
                            [tag |-> "data", v |-> token])

\* GuestAttributes::set_pid
GuestAttributes_set_pid(inner, pid) ==
    CFMutableDictionary_add(inner, kSecGuestAttributePid,
                            [tag |-> "number", v |-> pid])

\* GuestAttributes::set_other
GuestAttributes_set_other(inner, key, value) ==
    CFMutableDictionary_add(inner, key, [tag |-> "other", v |-> value])

(* ------------------------------- state --------------------------------- *)

VARIABLES
    heap,      \* the OS object table: type, reference count, location
    owners,    \* per object, the number of wrapper values alive that hold it
    attrs,     \* GuestAttributes.inner
    oscalls,   \* the Security calls the last operation issued
    result,    \* the last operation: its inputs and what it returned
    lastAudit, \* the token of the most recent set_audit_token call
    thr,       \* per thread: the call in progress on the shared handle
    fl         \* the Flags computation: operands, operation and value

vars == <<heap, owners, attrs, lastAudit, oscalls, result, thr, fl>>

\* The objects some live wrapper of the given type holds.
HandlesOf(type) == {o \in Obj : owners[o] > 0 /\ heap[o].type = type}

RECURSIVE SumOwners(_, _)
SumOwners(f, S) ==
    IF S = {} THEN 0
    ELSE LET o == CHOOSE x \in S : TRUE IN f[o] + SumOwners(f, S \ {o})

\* Room for one more wrapper value.
HasFreeHandle == SumOwners(owners, Obj) < MaxHandle

NoResult ==
    [ op |-> "none", flags |-> Flags.NONE, arg |-> NULL, status |-> 0,
      ok |-> TRUE, code |-> 0, out |-> NULL, slot |-> NULL, read |-> FALSE ]

IdleThread == [pc |-> "idle"]

NoFlagsOp ==
    [ op |-> "none", a |-> Flags.NONE, b |-> Flags.NONE, r |-> Flags.NONE,
      has_a |-> FALSE, has_b |-> FALSE ]

Init ==
    /\ heap = [o \in Obj |-> FreeObject]
    /\ owners = [o \in Obj |-> 0]
    /\ attrs = EmptyDictionary
    /\ lastAudit = NoToken
    /\ oscalls = <<>>
    /\ result = NoResult
    /\ thr = [t \in Thread |-> IdleThread]
    /\ fl = NoFlagsOp

\* A fallible operation returns: the wrapper it hands back (if any) becomes
\* a value the caller owns.
Return(op, flags, arg, r) ==
    /\ r.out # NULL => HasFreeHandle
    /\ heap' = r.heap
    /\ oscalls' = r.calls
    /\ owners' = IF r.out # NULL THEN [owners EXCEPT ![r.out] = @ + 1]
                                 ELSE owners
    /\ result' = [ op |-> op, flags |-> flags, arg |-> arg,
                   status |-> r.os.status, ok |-> r.ok, code |-> r.code,
                   out |-> r.out, slot |-> r.os.out, read |-> r.read ]
    /\ UNCHANGED <<thr, fl>>

(* ------------------------------ actions -------------------------------- *)

set_audit_token ==
    \E token \in Tokens :
        /\ attrs' = GuestAttributes_set_audit_token(attrs, token)
        /\ lastAudit' = token
        /\ result' = [NoResult EXCEPT !.op = "set_audit_token", !.arg = token]
        /\ oscalls' = <<>>
        /\ UNCHANGED <<heap, owners, thr, fl>>

set_pid ==
    \E pid \in Pids :
        /\ attrs' = GuestAttributes_set_pid(attrs, pid)
        /\ UNCHANGED lastAudit
        /\ result' = [NoResult EXCEPT !.op = "set_pid", !.arg = pid]
        /\ oscalls' = <<>>
        /\ UNCHANGED <<heap, owners, thr, fl>>

set_other ==
    \E key \in OtherKeys, value \in OtherValues :
        /\ attrs' = GuestAttributes_set_other(attrs, key, value)
        /\ UNCHANGED lastAudit
        /\ result' = [NoResult EXCEPT !.op = "set_other", !.arg = key]
        /\ oscalls' = <<>>
        /\ UNCHANGED <<heap, owners, thr, fl>>

from_str ==
    \E s \in Texts :
        /\ NumFree(heap) >= 2
        /\ Return("from_str", Flags.NONE, s, SecRequirement_from_str(heap, s))
        /\ UNCHANGED <<attrs, lastAudit>>

for_self ==
    \E flags \in FlagInputs, st \in OSStatus : \E loc \in LocationsFor(st) :
        /\ HasFree(heap)
        /\ Return("for_self", flags, NULL, SecCode_for_self(heap, flags, st, loc))
        /\ UNCHANGED <<attrs, lastAudit>>

copy_guest_with_attribues ==
    \E host \in HandlesOf("SecCode") \cup {NULL}, flags \in FlagInputs,
       st \in OSStatus : \E loc \in LocationsFor(st) :
        /\ HasFree(heap)
        /\ Return("copy_guest_with_attribues", flags, host,
                  SecCode_copy_guest_with_attribues(heap,
                      IF host = NULL THEN None ELSE Some(host),
                      attrs, flags, st, loc))
        /\ UNCHANGED <<attrs, lastAudit>>

SecCode_check ==
    \E self \in HandlesOf("SecCode"), req \in HandlesOf("SecRequirement"),
       flags \in FlagInputs, st \in OSStatus :
        /\ Return("SecCode::check_validity", flags, <<self, req>>,
                  SecCode_check_validity(heap, self, flags, req, st))
        /\ UNCHANGED <<attrs, lastAudit>>

SecCode_get_path ==
    \E self \in HandlesOf("SecCode"), flags \in FlagInputs, st \in OSStatus :
        /\ HasFree(heap)
        /\ Return("SecCode::path", flags, self,
                  SecCode_path(heap, self, flags, st))
        /\ UNCHANGED <<attrs, lastAudit>>

from_path ==
    \E path \in Paths, flags \in FlagInputs, st \in OSStatus :
      \E loc \in LocationsFor(st) :
        /\ HasFree(heap)
        /\ Return("from_path", flags, path,
                  SecStaticCode_from_path(heap, path, flags, st, loc))
        /\ UNCHANGED <<attrs, lastAudit>>

SecStaticCode_get_path ==
    \E self \in HandlesOf("SecStaticCode"), flags \in FlagInputs,
       st \in OSStatus :
        /\ HasFree(heap)
        /\ Return("SecStaticCode::path", flags, self,
                  SecStaticCode_path(heap, self, flags, st))
        /\ UNCHANGED <<attrs, lastAudit>>

SecStaticCode_check ==
    \E self \in HandlesOf("SecStaticCode"), req \in HandlesOf("SecRequirement"),
       flags \in FlagInputs, st \in OSStatus :
        /\ Return("SecStaticCode::check_validity", flags, <<self, req>>,
                  SecStaticCode_check_validity(heap, self, flags, req, st))
        /\ UNCHANGED <<attrs, lastAudit>>

\* A second owner of the same object.
clone ==
    \E o \in Obj :
        /\ owners[o] > 0
        /\ HasFreeHandle
        /\ heap' = Clone(heap, o)
        /\ owners' = [owners EXCEPT ![o] = @ + 1]
        /\ result' = [NoResult EXCEPT !.op = "clone", !.arg = o, !.out = o]
        /\ oscalls' = <<>>
        /\ UNCHANGED <<attrs, lastAudit, thr, fl>>

\* An owner goes out of scope.
drop ==
    \E o \in Obj :
        /\ owners[o] > 0
        /\ heap' = Drop(heap, o)
        /\ owners' = [owners EXCEPT ![o] = @ - 1]
        /\ result' = [NoResult EXCEPT !.op = "drop", !.arg = o]
        /\ oscalls' = <<>>
        /\ UNCHANGED <<attrs, lastAudit, thr, fl>>

\* The code-object operations, called with an empty attribute dictionary.
Next ==
    \/ from_str
    \/ for_self
    \/ copy_guest_with_attribues
    \/ SecCode_check
    \/ SecCode_get_path
    \/ from_path
    \/ SecStaticCode_get_path
    \/ SecStaticCode_check
    \/ clone
    \/ drop

Spec == Init /\ [][Next]_vars

\* Building a GuestAttributes dictionary and looking guests up with it.
NextAttrs ==
    \/ set_audit_token
    \/ set_pid
    \/ set_other
    \/ for_self
    \/ copy_guest_with_attribues
    \/ drop

SpecAttrs == Init /\ [][NextAttrs]_vars

(* ------------------- threads sharing one code handle ------------------- *)

\* The code object every thread calls through a shared reference, and the
\* requirement they check it against.
Shared == 1

SharedReq == 2

SharedOps == {"check_validity", "path"}

\* The call a thread issues, by the type of the shared handle.
CallOf(type, op, flags) ==
    CASE type = "SecCode" /\ op = "check_validity" ->
           SecCode_check_validity_call(Shared, flags, SharedReq)
      [] type = "SecCode" /\ op = "path" ->
           SecCode_path_call(Shared, flags)
      [] type = "SecStaticCode" /\ op = "check_validity" ->
           SecStaticCode_check_validity_call(Shared, flags, SharedReq)
      [] type = "SecStaticCode" /\ op = "path" ->
           SecStaticCode_path_call(Shared, flags)

\* What the thread's call returns once the OS has answered.
RetOf(type, op, h, call, os) ==
    CASE type = "SecCode" /\ op = "check_validity" ->
           SecCode_check_validity_ret(h, call, os)
      [] type = "SecCode" /\ op = "path" ->
           SecCode_path_ret(h, call, os)
      [] type = "SecStaticCode" /\ op = "check_validity" ->
           SecStaticCode_check_validity_ret(h, call, os)
      [] type = "SecStaticCode" /\ op = "path" ->
           SecStaticCode_path_ret(h, call, os)

InitThreads ==
    /\ \E type \in {"SecCode", "SecStaticCode"}, loc \in Paths :
          heap = [o \in Obj |->
                    IF o = Shared THEN [type |-> type, rc |-> 1, path |-> loc]
                    ELSE IF o = SharedReq
                         THEN [type |-> "SecRequirement", rc |-> 1, path |-> NoPath]
                         ELSE FreeObject]
    /\ owners = [o \in Obj |-> IF o \in {Shared, SharedReq} THEN 1 ELSE 0]
    /\ attrs = EmptyDictionary
    /\ lastAudit = NoToken
    /\ oscalls = <<>>
    /\ result = NoResult
    /\ thr = [t \in Thread |-> IdleThread]
    /\ fl = NoFlagsOp

\* The thread enters check_validity or path and the OS answers the call.
t_call(t) ==
    /\ thr[t].pc = "idle"
    /\ \E op \in SharedOps, flags \in FlagInputs, st \in OSStatus :
          LET call == CallOf(heap[Shared].type, op, flags)
              os   == OSCall(heap, call, st, NoPath)
          IN  /\ (op = "path" /\ st = 0) => HasFree(heap)
              /\ heap' = os.heap
              /\ thr' = [thr EXCEPT ![t] =
                           [ pc |-> "called", op |-> op, flags |-> flags,
                             call |-> call,
                             os |-> [status |-> os.status, out |-> os.out] ]]
    /\ UNCHANGED <<owners, attrs, lastAudit, oscalls, result, fl>>

\* The wrapper turns the OS's answer into the thread's Result.
t_return(t) ==
    /\ thr[t].pc = "called"
    /\ LET r == RetOf(heap[Shared].type, thr[t].op, heap, thr[t].call, thr[t].os)
       IN  /\ heap' = r.heap
           /\ owners' = IF r.out # NULL THEN [owners EXCEPT ![r.out] = @ + 1]
                                        ELSE owners
           /\ thr' = [thr EXCEPT ![t] =
                        [ pc |-> "returned", op |-> thr[t].op,
                          flags |-> thr[t].flags, call |-> thr[t].call,
                          os |-> thr[t].os, ok |-> r.ok, code |-> r.code,
                          out |-> r.out ]]
    /\ UNCHANGED <<attrs, lastAudit, oscalls, result, fl>>

\* The thread is done with the Result; a CFURL it got is dropped.
t_drop(t) ==
    /\ thr[t].pc = "returned"
    /\ IF thr[t].out # NULL
       THEN /\ heap' = Drop(heap, thr[t].out)
            /\ owners' = [owners EXCEPT ![thr[t].out] = @ - 1]
       ELSE UNCHANGED <<heap, owners>>
    /\ thr' = [thr EXCEPT ![t] = IdleThread]
    /\ UNCHANGED <<attrs, lastAudit, oscalls, result, fl>>

NextThreads ==
    \E t \in Thread :
        \/ t_call(t)
        \/ t_return(t)
        \/ t_drop(t)

SpecThreads == InitThreads /\ [][NextThreads]_vars

(* ------------------------- Flags as pure values ------------------------ *)

InitFlags ==
    /\ heap = [o \in Obj |-> FreeObject]
    /\ owners = [o \in Obj |-> 0]
    /\ attrs = EmptyDictionary
    /\ lastAudit = NoToken
    /\ oscalls = <<>>
    /\ result = NoResult
    /\ thr = [t \in Thread |-> IdleThread]
    /\ \E a \in NamedFlags, b \in NamedFlags :
          fl = [NoFlagsOp EXCEPT !.a = a, !.b = b]

flags_default ==
    /\ fl' = [fl EXCEPT !.op = "default", !.r = Flags_default,
                        !.has_a = FALSE, !.has_b = FALSE]
    /\ UNCHANGED <<heap, owners, attrs, lastAudit, oscalls, result, thr>>

flags_union ==
    /\ LET u == Flags_union(fl.a, fl.b)
       IN  fl' = [fl EXCEPT !.op = "union", !.r = u,
                            !.has_a = Flags_contains(u, fl.a),
                            !.has_b = Flags_contains(u, fl.b)]
    /\ UNCHANGED <<heap, owners, attrs, lastAudit, oscalls, result, thr>>

NextFlags ==
    \/ flags_default
    \/ flags_union

SpecFlags == InitFlags /\ [][NextFlags]_vars

(* ------------------------------- claims -------------------------------- *)

Fallible ==
    { "from_str", "for_self", "copy_guest_with_attribues", "SecCode::path",
      "SecCode::check_validity", "from_path", "SecStaticCode::path",
      "SecStaticCode::check_validity" }

Constructors ==
    { "from_str", "for_self", "copy_guest_with_attribues", "from_path",
      "SecCode::path", "SecStaticCode::path" }

Checks == {"SecCode::check_validity", "SecStaticCode::check_validity"}

\* The type of the object each constructor's wrapper holds.
TypeMadeBy(op) ==
    CASE op = "from_str" -> "SecRequirement"
      [] op \in {"for_self", "copy_guest_with_attribues"} -> "SecCode"
      [] op = "from_path" -> "SecStaticCode"
      [] op \in {"SecCode::path", "SecStaticCode::path"} -> "CFURL"

\* C1: every fallible operation makes its one OS call and returns success
\* exactly when the status of that call is zero; when the status is not zero
\* the error it returns carries that status as its code, unchanged.
C1_StatusSurfacedVerbatim ==
    result.op \in Fallible =>
        /\ Len(oscalls) = 1
        /\ result.ok <=> result.status = 0
        /\ ~result.ok => result.code = result.status

C1_Witness ==
    /\ result.op = "SecCode::check_validity"
    /\ result.status = errSecCSUnsigned
    /\ ~result.ok
    /\ result.code = -67062

\* C2: a constructor whose OS call fails returns no wrapper, does not read
\* the output slot and leaves the object table and the owners as they were;
\* one whose OS call succeeds returns exactly one new wrapper, holding the
\* object the OS wrote to the slot.
C2_NoPartialConstruction ==
    [][ result'.op \in Constructors =>
          IF result'.status # 0
          THEN /\ ~result'.ok
               /\ result'.out = NULL
               /\ ~result'.read
               /\ owners' = owners
               /\ heap' = heap
          ELSE /\ result'.ok
               /\ result'.read
               /\ result'.out = result'.slot
               /\ result'.out \in Obj
               /\ owners[result'.out] = 0
               /\ owners' = [owners EXCEPT ![result'.out] = 1]
               /\ heap'[result'.out].type = TypeMadeBy(result'.op)
               /\ heap'[result'.out].rc >= 1 ]_vars

C2_Witness ==
    /\ result.op = "from_str"
    /\ ~result.ok
    /\ result.out = NULL
    /\ \E o \in Obj : owners[o] > 0

\* C3: an object no wrapper holds any more has no reference left: once every
\* owner of a handle is dropped the object is destroyed.
C3_ReleasedWithLastOwner ==
    \A o \in Obj : owners[o] = 0 => heap[o].rc = 0

\* C4: while threads call check_validity and path on a shared handle, the
\* object it holds and that object's reference count and owners never
\* change, and each call returns what the OS answered to that very call:
\* success iff its status was zero, the status as error code, and for path
\* a new CFURL carrying the location of the shared object.
C4_SharedHandleReadOnly ==
    /\ [][ /\ heap'[Shared] = heap[Shared]
           /\ owners'[Shared] = owners[Shared]
           /\ heap'[SharedReq] = heap[SharedReq] ]_vars
    /\ [](\A t \in Thread :
            thr[t].pc = "returned" =>
                /\ thr[t].ok <=> thr[t].os.status = 0
                /\ ~thr[t].ok => thr[t].code = thr[t].os.status
                /\ (thr[t].op = "path" /\ thr[t].ok) =>
                       /\ thr[t].out \in Obj \ {Shared, SharedReq}
                       /\ heap[thr[t].out].type = "CFURL"
                       /\ heap[thr[t].out].path = heap[Shared].path
                /\ (thr[t].op = "check_validity" \/ ~thr[t].ok) =>
                       thr[t].out = NULL)

C4_Witness ==
    /\ thr[1].pc = "called"
    /\ thr[1].op = "check_validity"
    /\ thr[2].pc = "returned"
    /\ thr[2].op = "path"
    /\ thr[2].ok
    /\ heap[Shared].type = "SecCode"

\* C5: the value stored under the audit-token key is the token of the most
\* recent set_audit_token call.
C5_AuditTokenOverwritten ==
    lastAudit # NoToken =>
        /\ kSecGuestAttributeAudit \in DOMAIN attrs
        /\ attrs[kSecGuestAttributeAudit] = [tag |-> "data", v |-> lastAudit]

\* C7: a text outside the requirement grammar gives an error and no
\* requirement; "anchor apple" gives a SecRequirement; and a validity check
\* leaves the requirement it was given as it was: same object, same
\* reference count, still owned by the caller.
C7_RequirementReusable ==
    /\ [](result.op = "from_str" =>
            IF result.arg \in ValidRequirements
            THEN /\ result.ok
                 /\ result.out \in Obj
                 /\ heap[result.out].type = "SecRequirement"
            ELSE /\ ~result.ok
                 /\ result.code # 0
                 /\ result.out = NULL)
    /\ [][ result'.op \in Checks =>
             /\ heap'[result'.arg[2]] = heap[result'.arg[2]]
             /\ owners'[result'.arg[2]] = owners[result'.arg[2]]
             /\ heap'[result'.arg[2]].type = "SecRequirement"
             /\ heap'[result'.arg[2]].rc >= 1 ]_vars

C7_Witness ==
    /\ result.op = "SecStaticCode::check_validity"
    /\ ~result.ok
    /\ heap[result.arg[2]].type = "SecRequirement"
    /\ owners[result.arg[2]] = 1

\* C8: the guest lookup leaves the attribute dictionary and the host handle
\* as they were, whether it succeeds or fails, and hands the OS that very
\* dictionary and the host's object, or null when no host is given.
C8_LookupInputsReadOnly ==
    [][ result'.op = "copy_guest_with_attribues" =>
          /\ attrs' = attrs
          /\ Len(oscalls') = 1
          /\ oscalls'[1].attrs = attrs
          /\ oscalls'[1].host = result'.arg
          /\ result'.arg # NULL =>
                /\ heap'[result'.arg] = heap[result'.arg]
                /\ owners'[result'.arg] = owners[result'.arg] ]_vars

C8_Witness ==
    /\ result.op = "copy_guest_with_attribues"
    /\ result.arg # NULL
    /\ ~result.ok
    /\ Cardinality(DOMAIN attrs) >= 2
    /\ oscalls[1].attrs = attrs

\* C9: Flags::default() is NONE, with no bit set, and the union of two
\* named flags contains each of them.
C9_DefaultAndUnion ==
    /\ fl.op = "default" => fl.r = Flags.NONE /\ Flags_bits(fl.r) = {}
    /\ fl.op = "union" => fl.has_a /\ fl.has_b

C9_Witness ==
    /\ fl.op = "union"
    /\ fl.a = Flags.BASIC_VALIDATE_ONLY
    /\ fl.b = Flags.DO_NOT_VALIDATE_EXECUTABLE
    /\ fl.has_a
    /\ fl.has_b

\* C10: an operation that takes Flags makes one OS call and passes it the
\* caller's bits unchanged; from_str makes one OS call with no bit set.
C10_FlagsForwarded ==
    result.op \in Fallible =>
        /\ Len(oscalls) = 1
        /\ IF result.op = "from_str"
           THEN oscalls[1].flags = {}
           ELSE oscalls[1].flags = Flags_bits(result.flags)

C10_Witness ==
    /\ result.op = "from_path"
    /\ result.flags = Flags_union(Flags.BASIC_VALIDATE_ONLY, Flags.CONSIDER_EXPIRATION)
    /\ oscalls[1].flags = {1, 2, 31}

====
